---------------------------- MODULE Spec2Model ----------------------------
(***************************************************************************)
(* Model of one page execution of proyecto/app.py (dashboard "Movilidad    *)
(* CR"): the table of routes, the origin/destination selection and its     *)
(* filter, the single request to the routing service and the reshaping of  *)
(* its JSON answer, the rendered surfaces, the static map coloured by      *)
(* efficiency quantiles and the frame-by-frame animation.                  *)
(***************************************************************************)
EXTENDS Integers, Sequences, FiniteSets, TLC

(***************************************************************************)
(* Bounds of the model.                                                    *)
(***************************************************************************)
MaxRows == 3
MaxPts == 2

(***************************************************************************)
(* Python / JSON values.                                                   *)
(***************************************************************************)
\* a label variable the script has not assigned
SinAsignar == ""
\* Python's None
NONE == [tipo |-> "None"]
\* a Python float kept exact as the fraction num/den (den > 0)
Float(n, d) == [tipo |-> "float", num |-> n, den |-> d]
\* JSON null and JSON numbers in the body of the response
JNull == [tipo |-> "null"]
JNum(v) == [tipo |-> "number", valor |-> v]

\* exact comparison and arithmetic of floats (denominators are positive)
Gt(a, b) == a.num * b.den > b.num * a.den
Le(a, b) == ~Gt(a, b)
Lt(a, b) == Gt(b, a)
FEq(a, b) == a.num * b.den = b.num * a.den
FAdd(a, b) == Float(a.num * b.den + b.num * a.den, a.den * b.den)
FSub(a, b) == Float(a.num * b.den - b.num * a.den, a.den * b.den)
FMul(a, b) == Float(a.num * b.num, a.den * b.den)

(***************************************************************************)
(* The spreadsheet datos/rutas_cr.xlsx: rows the table may hold.           *)
(***************************************************************************)
Fila(i, f, r, la1, lo1, la2, lo2, d, p, fr) ==
    [inicio |-> i, fin |-> f, ruta |-> r,
     lat_inicio |-> la1, lon_inicio |-> lo1, lat_fin |-> la2, lon_fin |-> lo2,
     distancia_km |-> d, pasajeros_prom |-> p, frecuencia_hora |-> fr]

Filas ==
    { Fila("A", "B", "R1",  9, -84, 10, -83, 2, 4, 3),
      Fila("A", "B", "R2",  9, -84, 10, -85, 4, 4, 5),
      Fila("A", "B", "R1",  9, -84, 11, -83, 2, 3, 3),
      Fila("B", "A", "R1", 10, -83,  9, -84, 2, 1, 2),
      Fila("B", "B", "R2", 10, -83, 10, -83, 1, 3, 1) }

\* the tables read_excel may return: 1..MaxRows rows, in any order, repeats allowed
Tablas == UNION { [1..n -> Filas] : n \in 1..MaxRows }

\* df["eficiencia"] = df["pasajeros_prom"] / df["distancia_km"]
ConEficiencia(t) ==
    [k \in DOMAIN t |->
        [inicio |-> t[k].inicio, fin |-> t[k].fin, ruta |-> t[k].ruta,
         lat_inicio |-> t[k].lat_inicio, lon_inicio |-> t[k].lon_inicio,
         lat_fin |-> t[k].lat_fin, lon_fin |-> t[k].lon_fin,
         distancia_km |-> t[k].distancia_km,
         pasajeros_prom |-> t[k].pasajeros_prom,
         frecuencia_hora |-> t[k].frecuencia_hora,
         eficiencia |-> Float(t[k].pasajeros_prom, t[k].distancia_km)]]

(***************************************************************************)
(* Selection filter.                                                       *)
(***************************************************************************)
\* the options of a selectbox built from a column: its distinct values
Unique(t, col) == { t[k][col] : k \in DOMAIN t }

\* mutant: the two conditions joined by | instead of &
FiltrarCualquiera(t, o, d) == SelectSeq(t, LAMBDA r : r.inicio = o \/ r.fin = d)
\* df[(df["inicio"] == origen) & (df["fin"] == destino)]
Filtrar(t, o, d) == SelectSeq(t, LAMBDA r : r.inicio = o /\ r.fin = d)

\* rutas_od[rutas_od["ruta"] == ruta_seleccionada]
ConRuta(t, nombre) == SelectSeq(t, LAMBDA r : r.ruta = nombre)

\* mutant: the last row instead of the first (.iloc[-1])
IlocUltimo(t) == t[Len(t)]
\* .iloc[0]
Iloc0(t) == t[1]


(***************************************************************************)
(* Answers of the routing service.                                         *)
(***************************************************************************)
\* GeoJSON positions [lon, lat]
Puntos == { <<10, 20>>, <<11, 21>> }
Coordenadas == UNION { [1..n -> Puntos] : n \in 0..MaxPts }
\* durations in seconds
Duraciones == { 90 }

RutaJson(cs, d) ==
    [geometry |-> [type |-> "LineString", coordinates |-> cs], duration |-> d]

\* the answer {"routes":[{"geometry":{"coordinates":[[10,20],[11,21]]},"duration":600}]}
CuerpoEjemplo ==
    [code |-> "Ok", routes |-> << RutaJson(<< <<10, 20>>, <<11, 21>> >>, JNum(600)) >>]

\* bodies of the expected shape (one route, or two of which the first counts)
CuerposOk ==
    { [code |-> "Ok", routes |-> << RutaJson(cs, JNum(d)) >>] :
          cs \in Coordenadas, d \in Duraciones }
    \cup
    { CuerpoEjemplo,
      [code |-> "Ok",
       routes |-> << RutaJson(<< <<11, 21>>, <<10, 20>> >>, JNum(600)),
                     RutaJson(<< <<11, 21>> >>, JNum(90)) >>] }

\* bodies that lack an expected field, or whose duration is no number
CuerposMalos ==
    { [code |-> "InvalidQuery"],
      [code |-> "NoRoute", routes |-> << >>],
      [code |-> "Ok", routes |-> << [duration |-> JNum(600)] >>],
      [code |-> "Ok",
       routes |-> << [geometry |-> [type |-> "LineString"], duration |-> JNum(600)] >>],
      [code |-> "Ok",
       routes |-> << [geometry |-> [type |-> "LineString",
                                    coordinates |-> << <<10, 20>> >>]] >>],
      [code |-> "Ok", routes |-> << RutaJson(<< <<10, 20>> >>, JNull) >>] }

\* a body of the expected fields whose position has a single number
CuerpoPuntoCorto ==
    [code |-> "Ok", routes |-> << RutaJson(<< <<10, 20>>, <<11>> >>, JNum(600)) >>]

Respuestas ==
    { [status_code |-> 200, json_ok |-> TRUE, body |-> b] :
          b \in CuerposOk \cup CuerposMalos \cup { CuerpoPuntoCorto } }
    \cup
    { [status_code |-> 200, json_ok |-> FALSE, body |-> [code |-> "html"]] }
    \cup
    { [status_code |-> s, json_ok |-> TRUE, body |-> b] :
          s \in { 404, 500 }, b \in { CuerpoEjemplo, [code |-> "InvalidQuery"] } }

(***************************************************************************)
(* obtener_ruta_osrm                                                       *)
(***************************************************************************)
\* the request URL: {lon1},{lat1};{lon2},{lat2}
Url(lat1, lon1, lat2, lon2) == << <<lon1, lat1>>, <<lon2, lat2>> >>

Tiene(obj, campo) == campo \in DOMAIN obj

\* the try block raises (r.json(), a missing key or index, a duration that
\* cannot be divided)
TryLanza(r) ==
    \/ ~r.json_ok
    \/ ~Tiene(r.body, "routes")
    \/ Len(r.body.routes) = 0
    \/ ~Tiene(r.body.routes[1], "geometry")
    \/ ~Tiene(r.body.routes[1].geometry, "coordinates")
    \/ ~Tiene(r.body.routes[1], "duration")
    \/ r.body.routes[1].duration.tipo # "number"

\* data["routes"][0]["geometry"]["coordinates"]
Coords(r) == r.body.routes[1].geometry.coordinates

\* data["routes"][0]["duration"] / 60
Duracion(r) == Float(r.body.routes[1].duration.valor, 60)

\* mutant: the pair is not swapped (lat from c[0], lon from c[1])
RutaSinInvertir(coords) ==
    [k \in DOMAIN coords |-> [lat |-> coords[k][1], lon |-> coords[k][2]]]
\* [{"lat": c[1], "lon": c[0]} for c in coords]
Ruta(coords) == [k \in DOMAIN coords |-> [lat |-> coords[k][2], lon |-> coords[k][1]]]

\* c[1] raises IndexError for a position with fewer than two numbers
RutaLanza(coords) == \E k \in DOMAIN coords : Len(coords[k]) < 2

\* mutant: the failure result carries a duration of 0 instead of None
FalloCero == [lanza |-> FALSE, ruta |-> << >>, duracion |-> Float(0, 1)]
\* the result: (DataFrame, duration), or an exception that leaves the function
Fallo == [lanza |-> FALSE, ruta |-> << >>, duracion |-> NONE]

\* mutant: the status code is not checked
obtener_ruta_sin_status(r) ==
    IF TryLanza(r) THEN Fallo
    ELSE IF RutaLanza(Coords(r))
         THEN [lanza |-> TRUE, ruta |-> << >>, duracion |-> NONE]
    ELSE [lanza |-> FALSE, ruta |-> Ruta(Coords(r)), duracion |-> Duracion(r)]

obtener_ruta_osrm(r) ==
    IF r.status_code # 200 THEN Fallo
    ELSE IF TryLanza(r) THEN Fallo
    ELSE IF RutaLanza(Coords(r))
         THEN [lanza |-> TRUE, ruta |-> << >>, duracion |-> NONE]
    ELSE [lanza |-> FALSE, ruta |-> Ruta(Coords(r)), duracion |-> Duracion(r)]

\* mutant: the emptiness test never fires
EmptyNunca(t) == FALSE
\* DataFrame.empty
Empty(t) == Len(t) = 0

\* mutant: the failure test looks at the duration (if duracion_min is None)
RutaSinDuracion(res) == res.duracion = NONE
\* line 128: if ruta_real.empty
RutaVacia(res) == Empty(res.ruta)

\* mutant: the loop stops one point short (range(len(ruta_real) - 1))
RangoCorto(ruta) == Len(ruta) - 1
\* line 228: range(len(ruta_real))
Rango(ruta) == Len(ruta)

(***************************************************************************)
(* Static map: colour by quantiles of the full table's efficiency.         *)
(***************************************************************************)
\* Series.quantile(q/100): linear interpolation at position q*(n-1)/100 of
\* the sorted values
Quantile(col, q) ==
    LET s == SortSeq(col, Lt)
        k == q * (Len(s) - 1)
        lo == (k \div 100) + 1
        fr == k % 100
        hi == IF fr = 0 THEN lo ELSE lo + 1
    IN  FAdd(s[lo], FMul(Float(fr, 100), FSub(s[hi], s[lo])))

Columna(t, col) == [k \in DOMAIN t |-> t[k][col]]

\* mutant: the first comparison is >= instead of >
eficiencia_color_ge(t, value) ==
    IF ~Lt(value, Quantile(Columna(t, "eficiencia"), 66)) THEN "green"
    ELSE IF Gt(value, Quantile(Columna(t, "eficiencia"), 33)) THEN "orange"
    ELSE "red"

eficiencia_color(t, value) ==
    IF Gt(value, Quantile(Columna(t, "eficiencia"), 66)) THEN "green"
    ELSE IF Gt(value, Quantile(Columna(t, "eficiencia"), 33)) THEN "orange"
    ELSE "red"

\* the polylines added to the folium map, one per row of the table
Polilineas(t) ==
    [k \in DOMAIN t |->
        [locations |-> << <<t[k].lat_inicio, t[k].lon_inicio>>,
                          <<t[k].lat_fin, t[k].lon_fin>> >>,
         color |-> eficiencia_color(t, t[k].eficiencia),
         tooltip |-> t[k].ruta]]

(***************************************************************************)
(* Metrics: idxmin / idxmax return the first extremal row.                 *)
(***************************************************************************)
IdxMin(t, col) ==
    CHOOSE k \in DOMAIN t :
        /\ \A j \in DOMAIN t : t[k][col] <= t[j][col]
        /\ \A j \in DOMAIN t : t[j][col] = t[k][col] => k <= j

IdxMax(t, col) ==
    CHOOSE k \in DOMAIN t :
        /\ \A j \in DOMAIN t : t[k][col] >= t[j][col]
        /\ \A j \in DOMAIN t : t[j][col] = t[k][col] => k <= j

IdxMaxEficiencia(t) ==
    CHOOSE k \in DOMAIN t :
        /\ \A j \in DOMAIN t : Le(t[j].eficiencia, t[k].eficiencia)
        /\ \A j \in DOMAIN t : FEq(t[j].eficiencia, t[k].eficiencia) => k <= j

(***************************************************************************)
(* Animation frame i (0-based) of the fetched path.                        *)
(***************************************************************************)
\* ruta_real.iloc[i:i+1]
Punto(ruta, i) == SubSeq(ruta, i + 1, i + 1)
\* mutant: the slice stops one point short (iloc[:i])
CaminoCorto(ruta, i) == SubSeq(ruta, 1, i)
\* ruta_real.iloc[:i+1]
Camino(ruta, i) == SubSeq(ruta, 1, i + 1)

\* pdk.Deck(layers=[layer_path, layer_bus], initial_view_state=view_state)
Deck(ruta, i) ==
    LET punto == Punto(ruta, i)
        camino == Camino(ruta, i)
    IN  [tipo |-> "deck",
         bus |-> [k \in DOMAIN punto |-> <<punto[k].lon, punto[k].lat>>],
         path |-> [k \in DOMAIN camino |-> <<camino[k].lon, camino[k].lat>>],
         latitude |-> punto[1].lat,
         longitude |-> punto[1].lon]

(***************************************************************************)
(* Bar chart: df.groupby("ruta")["pasajeros_prom"].sum()                   *)
(***************************************************************************)
RECURSIVE SumaPasajeros(_, _)
SumaPasajeros(t, nombre) ==
    IF Len(t) = 0 THEN 0
    ELSE (IF t[1].ruta = nombre THEN t[1].pasajeros_prom ELSE 0)
         + SumaPasajeros(Tail(t), nombre)

DemandaPorRuta(t) == [n \in Unique(t, "ruta") |-> SumaPasajeros(t, n)]

(***************************************************************************)
(* State of one page execution.                                            *)
(***************************************************************************)
VARIABLES
    df,                 \* the table, with its efficiency column
    pc,                 \* position of the script
    origen, destino,    \* sidebar selections
    rutas_od,           \* rows of df matching the selection
    ruta_seleccionada,  \* the route-name choice, when asked
    widgets,            \* selectboxes shown in the sidebar
    fila,               \* the row whose coordinates are sent
    peticiones,         \* requests sent to the routing service
    respuesta,          \* the answer received
    ruta_real,          \* fetched path: sequence of [lat, lon]
    duracion_min,       \* fetched duration in minutes, or NONE
    errores,            \* st.error messages shown
    salida,             \* surfaces rendered, in order
    map_placeholder,    \* the st.empty() slot of the animated map
    cuadros,            \* every update of map_placeholder, in order
    i                   \* next index of range(len(ruta_real))

vars == << df, pc, origen, destino, rutas_od, ruta_seleccionada, widgets, fila,
           peticiones, respuesta, ruta_real, duracion_min, errores, salida,
           map_placeholder, cuadros, i >>

Init ==
    /\ df \in { ConEficiencia(t) : t \in Tablas }
    /\ pc = "seleccion"
    /\ origen = SinAsignar
    /\ destino = SinAsignar
    /\ rutas_od = << >>
    /\ ruta_seleccionada = SinAsignar
    /\ widgets = { }
    /\ fila = NONE
    /\ peticiones = << >>
    /\ respuesta = NONE
    /\ ruta_real = << >>
    /\ duracion_min = NONE
    /\ errores = << >>
    /\ salida = << >>
    /\ map_placeholder = NONE
    /\ cuadros = << >>
    /\ i = 0

\* lines 98-107: the two selectboxes, the filter, and the halt on no match
Seleccionar ==
    /\ pc = "seleccion"
    /\ \E o \in Unique(df, "inicio"), d \in Unique(df, "fin") :
        /\ origen' = o
        /\ destino' = d
        /\ rutas_od' = Filtrar(df, o, d)
        /\ widgets' = widgets \cup { "origen", "destino" }
        /\ IF Empty(Filtrar(df, o, d))
           THEN /\ errores' = Append(errores, "No existen rutas entre este origen y destino.")
                /\ pc' = "stop"
           ELSE /\ errores' = errores
                /\ pc' = "fila"
    /\ UNCHANGED << df, ruta_seleccionada, fila, peticiones, respuesta, ruta_real,
                    duracion_min, salida, map_placeholder, cuadros, i >>

\* lines 109-121: the route-name selectbox when several rows match
ElegirFila ==
    /\ pc = "fila"
    /\ IF Len(rutas_od) > 1
       THEN \E n \in Unique(rutas_od, "ruta") :
                /\ ruta_seleccionada' = n
                /\ widgets' = widgets \cup { "ruta" }
                /\ fila' = Iloc0(ConRuta(rutas_od, n))
       ELSE /\ fila' = Iloc0(rutas_od)
            /\ UNCHANGED << ruta_seleccionada, widgets >>
    /\ pc' = "osrm"
    /\ UNCHANGED << df, origen, destino, rutas_od, peticiones, respuesta, ruta_real,
                    duracion_min, errores, salida, map_placeholder, cuadros, i >>

\* lines 126-130: the request, the reshaped answer, and the halt on failure
ObtenerRuta ==
    /\ pc = "osrm"
    /\ \E r \in Respuestas :
        LET res == obtener_ruta_osrm(r) IN
        /\ peticiones' = Append(peticiones,
               Url(fila.lat_inicio, fila.lon_inicio, fila.lat_fin, fila.lon_fin))
        /\ respuesta' = r
        /\ IF res.lanza
           THEN /\ pc' = "excepcion"
                /\ UNCHANGED << ruta_real, duracion_min, errores >>
           ELSE /\ ruta_real' = res.ruta
                /\ duracion_min' = res.duracion
                /\ IF RutaVacia(res)
                   THEN /\ errores' = Append(errores, "Error al obtener ruta desde OSRM.")
                        /\ pc' = "stop"
                   ELSE /\ errores' = errores
                        /\ pc' = "indicadores"
    /\ UNCHANGED << df, origen, destino, rutas_od, ruta_seleccionada, widgets, fila,
                    salida, map_placeholder, cuadros, i >>

\* lines 135-151: the three extremal metrics, then the duration metric, whose
\* format raises on None
Indicadores ==
    /\ pc = "indicadores"
    /\ LET tres == [tipo |-> "indicadores",
                    corta |-> rutas_od[IdxMin(rutas_od, "distancia_km")].ruta,
                    frecuente |-> rutas_od[IdxMax(rutas_od, "frecuencia_hora")].ruta,
                    eficiente |-> rutas_od[IdxMaxEficiencia(rutas_od)].ruta]
       IN IF duracion_min = NONE
          THEN /\ salida' = Append(salida, tres)
               /\ pc' = "excepcion"
          ELSE /\ salida' = Append(Append(salida, tres),
                                   [tipo |-> "duracion", minutos |-> duracion_min])
               /\ pc' = "tabla"
    /\ UNCHANGED << df, origen, destino, rutas_od, ruta_seleccionada, widgets, fila,
                    peticiones, respuesta, ruta_real, duracion_min, errores,
                    map_placeholder, cuadros, i >>

\* lines 156-157: the table of the matching rows
Tabla ==
    /\ pc = "tabla"
    /\ salida' = Append(salida, [tipo |-> "tabla", filas |-> rutas_od])
    /\ pc' = "grafico"
    /\ UNCHANGED << df, origen, destino, rutas_od, ruta_seleccionada, widgets, fila,
                    peticiones, respuesta, ruta_real, duracion_min, errores,
                    map_placeholder, cuadros, i >>

\* lines 162-163: the bar chart of demand per route over the full table
Grafico ==
    /\ pc = "grafico"
    /\ salida' = Append(salida, [tipo |-> "grafico", datos |-> DemandaPorRuta(df)])
    /\ pc' = "mapas"
    /\ UNCHANGED << df, origen, destino, rutas_od, ruta_seleccionada, widgets, fila,
                    peticiones, respuesta, ruta_real, duracion_min, errores,
                    map_placeholder, cuadros, i >>

\* lines 168-224: the empty placeholder of the animated map and the static map
Mapas ==
    /\ pc = "mapas"
    /\ map_placeholder' = [tipo |-> "empty"]
    /\ salida' = Append(salida, [tipo |-> "mapa_general", lineas |-> Polilineas(df)])
    /\ i' = 0
    /\ pc' = "animacion"
    /\ UNCHANGED << df, origen, destino, rutas_od, ruta_seleccionada, widgets, fila,
                    peticiones, respuesta, ruta_real, duracion_min, errores, cuadros >>

\* lines 228-264: one iteration of the loop
Frame ==
    /\ pc = "animacion"
    /\ i < Rango(ruta_real)
    /\ map_placeholder' = Deck(ruta_real, i)
    /\ cuadros' = Append(cuadros, [i |-> i, deck |-> Deck(ruta_real, i)])
    /\ i' = i + 1
    /\ UNCHANGED << df, pc, origen, destino, rutas_od, ruta_seleccionada, widgets,
                    fila, peticiones, respuesta, ruta_real, duracion_min, errores,
                    salida >>

\* line 228: range() is exhausted, the script ends
FinAnimacion ==
    /\ pc = "animacion"
    /\ i = Rango(ruta_real)
    /\ pc' = "fin"
    /\ UNCHANGED << df, origen, destino, rutas_od, ruta_seleccionada, widgets, fila,
                    peticiones, respuesta, ruta_real, duracion_min, errores, salida,
                    map_placeholder, cuadros, i >>

Next ==
    \/ Seleccionar
    \/ ElegirFila
    \/ ObtenerRuta
    \/ Indicadores
    \/ Tabla
    \/ Grafico
    \/ Mapas
    \/ Frame
    \/ FinAnimacion

Spec == Init /\ [][Next]_vars

\* The animation reads the fetched path alone, so its run to the end is
\* followed from the one-row tables; the script is sequential and keeps
\* running, so a step that can be taken is taken.
InitUnaFila == Init /\ Len(df) = 1

FairSpec == InitUnaFila /\ [][Next]_vars /\ WF_vars(Next)

(***************************************************************************)
(* Properties.                                                             *)
(***************************************************************************)
MsgSinRutas == "No existen rutas entre este origen y destino."
MsgOsrm == "Error al obtener ruta desde OSRM."

\* nothing of the dashboard below the sidebar has been drawn
NadaDibujado ==
    /\ salida = << >>
    /\ map_placeholder = NONE
    /\ cuadros = << >>

\* the script has stopped: no step of it can run
Detenido == ~ENABLED Next

\* the path drawn by a frame, as [lon, lat] positions of the fetched path
Posiciones(ruta, n) == [k \in 1..n |-> <<ruta[k].lon, ruta[k].lat>>]

\* C1: the frames rendered so far are frames 0, 1, 2, ... in this order, each
\* once, never more than the path has points and all of them once the loop has
\* ended; frame i has its marker and camera at point i and draws exactly the
\* points 0..i of the fetched path in their order.
C1_FramesEnOrden ==
    /\ Len(cuadros) <= Len(ruta_real)
    /\ pc = "animacion" => Len(cuadros) = i
    /\ pc = "fin" => Len(cuadros) = Len(ruta_real)
    /\ \A k \in 1..Len(cuadros) :
        /\ cuadros[k].i = k - 1
        /\ cuadros[k].deck.bus = << <<ruta_real[k].lon, ruta_real[k].lat>> >>
        /\ cuadros[k].deck.latitude = ruta_real[k].lat
        /\ cuadros[k].deck.longitude = ruta_real[k].lon
        /\ cuadros[k].deck.path = Posiciones(ruta_real, k)

C1_Witness ==
    /\ pc = "fin"
    /\ Len(ruta_real) >= 2
    /\ ruta_real[1] # ruta_real[2]
    /\ Len(cuadros) = Len(ruta_real)

\* C2: when no row matches the selection the error is shown and the script
\* stops: no request has been sent and nothing has been drawn.
C2_SinRutasDetiene ==
    (pc # "seleccion" /\ rutas_od = << >>) =>
        /\ pc = "stop"
        /\ errores = << MsgSinRutas >>
        /\ peticiones = << >>
        /\ respuesta = NONE
        /\ NadaDibujado
        /\ Detenido

C2_Witness ==
    /\ pc = "stop"
    /\ rutas_od = << >>
    /\ Len(df) >= 2
    /\ errores = << MsgSinRutas >>

\* the answers the claims call a failed fetch: a status other than 200, a body
\* that is no JSON, or a body that lacks an expected field
RespuestaFallida(r) ==
    \/ r.status_code # 200
    \/ ~r.json_ok
    \/ r.body \in CuerposMalos

C4_FalloSinExcepcion ==
    (respuesta # NONE /\ RespuestaFallida(respuesta)) =>
        /\ obtener_ruta_osrm(respuesta) = [lanza |-> FALSE, ruta |-> << >>,
                                           duracion |-> NONE]
        /\ ruta_real = << >>
        /\ duracion_min = NONE
        /\ pc # "excepcion"

C4_Witness ==
    /\ respuesta # NONE
    /\ respuesta.status_code = 200
    /\ respuesta.json_ok
    /\ respuesta.body = [code |-> "InvalidQuery"]
    /\ ruta_real = << >>
    /\ duracion_min = NONE

\* a 200 answer of the expected shape
RespuestaEsperada(r) ==
    /\ r.status_code = 200
    /\ r.json_ok
    /\ r.body \in CuerposOk

\* C5: for a 200 answer of the expected shape the path has as many points as
\* the first route's coordinate list, point k being (lat, lon) of the k-th
\* [lon, lat] pair, and the duration is the first route's seconds divided by
\* 60; coordinates [[10,20],[11,21]] and 600 s give [(20,10),(21,11)] and 10.
C5_RutaYDuracion ==
    (respuesta # NONE /\ RespuestaEsperada(respuesta)) =>
        LET cs == respuesta.body.routes[1].geometry.coordinates
            seg == respuesta.body.routes[1].duration.valor
        IN  /\ Len(ruta_real) = Len(cs)
            /\ \A k \in 1..Len(cs) :
                   ruta_real[k] = [lat |-> cs[k][2], lon |-> cs[k][1]]
            /\ duracion_min # NONE
            /\ duracion_min.num * 60 = seg * duracion_min.den
            /\ respuesta.body = CuerpoEjemplo =>
                   /\ ruta_real = << [lat |-> 20, lon |-> 10], [lat |-> 21, lon |-> 11] >>
                   /\ duracion_min.num = 10 * duracion_min.den

C5_Witness ==
    /\ respuesta # NONE
    /\ respuesta.status_code = 200
    /\ respuesta.body = CuerpoEjemplo
    /\ pc = "indicadores"
    /\ Len(ruta_real) = 2

\* something of the metrics, the table, the chart, the maps or the animation
\* has been reached
Dibujando ==
    \/ pc \in { "indicadores", "tabla", "grafico", "mapas", "animacion", "fin" }
    \/ ~NadaDibujado

\* C10: whenever the metrics, the static map or the animation are reached the
\* fetched path has at least one point and the duration is a number; a 200
\* answer of the expected shape with an empty coordinate list is halted as a
\* fetch failure, and no exception is raised after the fetch.
C10_RutaNoVacia ==
    /\ Dibujando =>
            /\ Len(ruta_real) >= 1
            /\ duracion_min # NONE
            /\ duracion_min.tipo = "float"
    /\ (respuesta # NONE /\ RespuestaEsperada(respuesta)
            /\ respuesta.body.routes[1].geometry.coordinates = << >>) =>
            /\ pc = "stop"
            /\ errores = << MsgOsrm >>
            /\ NadaDibujado
    /\ pc = "fin" => Len(cuadros) >= 1
    /\ pc = "excepcion" => NadaDibujado

C10_Witness ==
    /\ respuesta # NONE
    /\ RespuestaEsperada(respuesta)
    /\ respuesta.body.routes[1].geometry.coordinates = << >>
    /\ duracion_min # NONE
    /\ pc = "stop"

\* the row has been chosen
FilaElegida == pc \notin { "seleccion", "fila" } /\ fila # NONE

\* the request carries the coordinates of the chosen row
PeticionDeFila ==
    \A k \in 1..Len(peticiones) :
        peticiones[k] = << <<fila.lon_inicio, fila.lat_inicio>>,
                           <<fila.lon_fin, fila.lat_fin>> >>

\* indexes of the matching rows that carry the chosen route name
ConNombre == { k \in 1..Len(rutas_od) : rutas_od[k].ruta = ruta_seleccionada }

\* C6 as stated: with more than one matching row the route-name choice leaves
\* exactly one row of the filtered set, which is the chosen row; with exactly
\* one matching row no route selectbox is shown and that row is the one whose
\* coordinates are sent.
C6_Original ==
    FilaElegida =>
        /\ Len(rutas_od) > 1 =>
                /\ "ruta" \in widgets
                /\ Cardinality(ConNombre) = 1
                /\ \A k \in ConNombre : fila = rutas_od[k]
        /\ Len(rutas_od) = 1 =>
                /\ "ruta" \notin widgets
                /\ fila = rutas_od[1]
        /\ PeticionDeFila

\* C6 as amended: with more than one matching row the route selectbox is
\* shown, the chosen name is carried by at least one row of the filtered set
\* and the chosen row is the first of them; with exactly one matching row no
\* route selectbox is shown and that row is chosen; the request carries the
\* coordinates of the chosen row.
C6_PrimeraConNombre ==
    FilaElegida =>
        /\ Len(rutas_od) > 1 =>
                /\ "ruta" \in widgets
                /\ ConNombre # { }
                /\ \A k \in ConNombre :
                       (\A j \in ConNombre : k <= j) => fila = rutas_od[k]
        /\ Len(rutas_od) = 1 =>
                /\ "ruta" \notin widgets
                /\ ruta_seleccionada = SinAsignar
                /\ fila = rutas_od[1]
        /\ PeticionDeFila

C6_Witness ==
    /\ FilaElegida
    /\ Len(rutas_od) > 1
    /\ Cardinality(ConNombre) = 2
    /\ \E k \in ConNombre : rutas_od[k] # fila
    /\ Len(peticiones) = 1

\* the rows of sub are exactly the rows of t with these labels, in t's order
FilasExactas(sub, t, o, d) ==
    LET coinciden == { k \in 1..Len(t) : t[k].inicio = o /\ t[k].fin = d }
    IN  \E f \in [1..Len(sub) -> 1..Len(t)] :
            /\ \A a, b \in 1..Len(sub) : a < b => f[a] < f[b]
            /\ { f[a] : a \in 1..Len(sub) } = coinciden
            /\ \A a \in 1..Len(sub) : sub[a] = t[f[a]]

\* C7: the filter step yields exactly the rows of the table whose inicio is
\* the chosen origin and whose fin is the chosen destination, every one of
\* them and no other, and it leaves the table as it was.
C7_FiltroExacto ==
    [][pc = "seleccion" =>
          /\ FilasExactas(rutas_od', df, origen', destino')
          /\ df' = df]_vars

C7_Witness ==
    /\ pc = "fila"
    /\ Len(rutas_od) = 2
    /\ Len(df) = 3
    /\ df[2].fin # destino
    /\ df[1].inicio = origen

\* the thresholds: 33rd and 66th percentile of the full table's efficiency
Q33 == Quantile([k \in 1..Len(df) |-> df[k].eficiencia], 33)
Q66 == Quantile([k \in 1..Len(df) |-> df[k].eficiencia], 66)

MapaDibujado ==
    /\ salida # << >>
    /\ salida[Len(salida)].tipo = "mapa_general"

\* C8: on the static map every row of the full table has exactly one of the
\* three colours: green when its efficiency is strictly above the 66th
\* percentile of the full table, red when it is at or below the 33rd, orange
\* when it is above the 33rd and at or below the 66th.
C8_ColorPorCuantil ==
    MapaDibujado =>
        LET lineas == salida[Len(salida)].lineas IN
        /\ Len(lineas) = Len(df)
        /\ Le(Q33, Q66)
        /\ \A k \in 1..Len(df) :
            LET v == df[k].eficiencia
                c == lineas[k].color
            IN  /\ c \in { "green", "orange", "red" }
                /\ (c = "green") <=> Gt(v, Q66)
                /\ (c = "red") <=> Le(v, Q33)
                /\ (c = "orange") <=> (Gt(v, Q33) /\ Le(v, Q66))

C8_Witness ==
    /\ MapaDibujado
    /\ Len(rutas_od) < Len(df)
    /\ \E k \in 1..Len(df) :
           /\ FEq(df[k].eficiencia, Q66)
           /\ salida[Len(salida)].lineas[k].color = "orange"
    /\ \E k \in 1..Len(df) : salida[Len(salida)].lineas[k].color = "red"

\* the placeholder holds nothing, or the one frame of the latest update
UnSoloFrame ==
    /\ map_placeholder.tipo \in { "None", "empty" } <=> cuadros = << >>
    /\ cuadros # << >> => map_placeholder = cuadros[Len(cuadros)].deck
    /\ Len(cuadros) <= Len(ruta_real)

\* the loop has ended on the frame of the last point
FrameFinal ==
    pc = "fin" =>
        /\ Len(cuadros) = Len(ruta_real)
        /\ map_placeholder.tipo = "deck"
        /\ map_placeholder.bus =
               << <<ruta_real[Len(ruta_real)].lon, ruta_real[Len(ruta_real)].lat>> >>
        /\ Len(map_placeholder.path) = Len(ruta_real)

\* C9: once the animation has started it ends; the placeholder never holds
\* more than the frame of its latest update, the updates are as many as the
\* path has points, at the end the placeholder holds the frame of the last
\* point, and after the end it is not updated again.
C9_AnimacionTermina ==
    /\ [](UnSoloFrame /\ FrameFinal)
    /\ [][pc = "fin" => (map_placeholder' = map_placeholder /\ cuadros' = cuadros)]_vars
    /\ (pc = "animacion") ~> (pc = "fin")

C9_Witness ==
    /\ pc = "fin"
    /\ Len(cuadros) = 2
    /\ map_placeholder = cuadros[2].deck
    /\ map_placeholder # cuadros[1].deck

=============================================================================
